---- MODULE Spec2Model ----
(***************************************************************************)
(* A model of embedded_ascii.h: the glyph table, the glyph lookup, the     *)
(* callback and direct-buffer glyph draws, the text draw and the text      *)
(* metrics.                                                                *)
(*                                                                         *)
(* Every API call runs in an activation record (a "frame") of its own,     *)
(* held in th[t] for the calling thread t.  A frame holds the call's       *)
(* parameters and locals under the names the source gives them, its        *)
(* program counter pc, and the objects the caller owns and hands in: the   *)
(* image buffer and the log of the calls its pixel_fn received.  One step  *)
(* of a frame is one evaluation of a loop head or one loop iteration, so   *)
(* that threads interleave between any two pixel writes or pixel_fn calls. *)
(***************************************************************************)
EXTENDS Integers, Sequences, FiniteSets, TLC

VARIABLES
    font,         \* the contents of the table ascii_font
    char_signed,  \* whether the platform's plain char is signed
    th,           \* th[t]: the frame of the call thread t is running
    th0           \* th0[t]: that frame as the caller set it up

vars == <<font, char_signed, th, th0>>

---------------------------------------------------------------------------
(* Configuration macros.                                                   *)

ASCII_FONT_WIDTH == 8

ASCII_FONT_HEIGHT == 8

ASCII_FIRST_CHAR == 32

ASCII_LAST_CHAR == 127

ASCII_CHAR_COUNT == ASCII_LAST_CHAR - ASCII_FIRST_CHAR

ASCII_COLOR_WHITE == 65535

ASCII_COLOR_BLACK == 0

\* '\n'
NEWLINE == 10

---------------------------------------------------------------------------
(* Bounds of the model.                                                    *)

\* the widest image buffer
MaxW == 10

\* the tallest image buffer
MaxH == 9

\* the longest text
MaxLen == 4

\* how many times a direct-buffer draw is issued on the same buffer
MaxCalls == 2

---------------------------------------------------------------------------
(* Font data.  A glyph is its ASCII_FONT_HEIGHT row bytes, top row first;  *)
(* row `row` of the source (counted from 0) is glyph[row + 1].             *)

BlankGlyph == <<0, 0, 0, 0, 0, 0, 0, 0>>

\* {0x3E, 0x7F, 0x6B, 0x6B, 0x6B, 0x6B, 0x7F, 0x3E}
ZeroGlyph == <<62, 127, 107, 107, 107, 107, 127, 62>>

\* The table as shipped: every entry is blank except '0' (ASCII 48).
ascii_font ==
    [i \in 0..(ASCII_CHAR_COUNT - 1) |->
        IF i = 48 - ASCII_FIRST_CHAR THEN ZeroGlyph ELSE BlankGlyph]

\* The shipped table is a placeholder for the integrator's font ("[Your
\* font remains unchanged]").  The draws are also run on a table with
\* further glyphs filled in: 'A' with every bit set, 'B' with the two
\* outermost columns and one row, '0' and the fallback entry as shipped.
DenseFont ==
    [ascii_font EXCEPT ![65 - ASCII_FIRST_CHAR] =
                           <<255, 255, 255, 255, 255, 255, 255, 255>>,
                       ![66 - ASCII_FIRST_CHAR] =
                           <<129, 0, 255, 0, 1, 128, 0, 129>>]

Fonts == {ascii_font, DenseFont}

\* bitmap[row] & (1 << col)
BitSet_Mirrored(byte, col) == (byte \div (2 ^ col)) % 2 = 1

\* bitmap[row] & (1 << (7 - col))
BitSet(byte, col) == (byte \div (2 ^ (7 - col))) % 2 = 1

---------------------------------------------------------------------------
(* Characters.  A text is a sequence of non-zero 8-bit codes; the          *)
(* terminating zero is read at position Len(text) + 1.                     *)

\* The value of a plain char holding the 8-bit code b, promoted to int.
ToChar(b) == IF char_signed /\ b >= 128 THEN b - 256 ELSE b

\* a line break read as the end of the text
CharAt_StopAtNewline(text, i) ==
    IF i > Len(text) \/ text[i] = NEWLINE THEN 0 ELSE ToChar(text[i])

\* *ptr for ptr = text + (i - 1)
CharAt(text, i) == IF i > Len(text) THEN 0 ELSE ToChar(text[i])

---------------------------------------------------------------------------
(* ascii_get_char_bitmap.  The pointer it returns is modelled by the index *)
(* of the table entry it points to.                                        *)

ascii_get_char_bitmap_NoLowCheck(c) ==
    IF c >= ASCII_LAST_CHAR THEN 0 ELSE c - ASCII_FIRST_CHAR

ascii_get_char_bitmap(c) ==
    IF c < ASCII_FIRST_CHAR \/ c >= ASCII_LAST_CHAR
    THEN 0
    ELSE c - ASCII_FIRST_CHAR

\* A caller's single call of ascii_get_char_bitmap.
LookupStep(f) ==
    [f EXCEPT !.result = ascii_get_char_bitmap(f.c), !.pc = "done"]

LookupFrame(code) ==
    [op |-> "lookup", pc |-> "call", code |-> code, c |-> ToChar(code),
     result |-> -1]

---------------------------------------------------------------------------
(* Direct-buffer draws: ascii_draw_char_to_mono_buffer and                 *)
(* ascii_draw_char_to_rgb565_buffer.  The two bodies are the same text;    *)
(* they differ in the element type of buffer and the type of color.        *)
(*                                                                         *)
(* pc = "entry": the origin test; "row": the head of the row loop and its  *)
(* break; "col": the head of the column loop, its break and its body.      *)
(* A frame also records, for the properties: writes, every store the draw  *)
(* made (its px, py and index); iters, the column-loop bodies entered;     *)
(* calls, how many times the draw was issued; once, the buffer after the   *)
(* first call.                                                             *)

OriginOutside_WholeGlyph(f) ==
    \/ f.x + ASCII_FONT_WIDTH <= 0 \/ f.y + ASCII_FONT_HEIGHT <= 0
    \/ f.x >= f.buf_width \/ f.y >= f.buf_height

OriginOutside_NoNegative(f) ==
    f.x >= f.buf_width \/ f.y >= f.buf_height

\* if (x < 0 || y < 0 || x >= buf_width || y >= buf_height) return;
OriginOutside(f) ==
    f.x < 0 \/ f.y < 0 \/ f.x >= f.buf_width \/ f.y >= f.buf_height

RowBreak_OffByOne(f) == f.y + f.row >= f.buf_height - 1

\* if (py >= buf_height) break;
RowBreak(f) == f.y + f.row >= f.buf_height

ColBreak_OffByOne(f) == f.x + f.col >= f.buf_width - 1

\* if (px >= buf_width) break;
ColBreak(f) == f.x + f.col >= f.buf_width

\* buffer[index] ^= color, for a cell holding 0 or color
Store_Xor(buffer, index, color) ==
    IF index \in DOMAIN buffer
    THEN [buffer EXCEPT ![index] = IF buffer[index] = color THEN 0
                                   ELSE IF buffer[index] = 0 THEN color
                                   ELSE buffer[index]]
    ELSE buffer

\* buffer[index] = color; a store outside the buffer does not reach it
Store(buffer, index, color) ==
    IF index \in DOMAIN buffer THEN [buffer EXCEPT ![index] = color] ELSE buffer

DrawCharToBuffer(f) ==
    CASE f.pc = "entry" ->
            IF OriginOutside(f)
            THEN [f EXCEPT !.pc = "done"]
            ELSE [f EXCEPT !.bitmap = ascii_get_char_bitmap(f.c),
                           !.row = 0, !.pc = "row"]
      [] f.pc = "row" ->
            IF f.row < ASCII_FONT_HEIGHT /\ ~RowBreak(f)
            THEN [f EXCEPT !.col = 0, !.pc = "col"]
            ELSE [f EXCEPT !.pc = "done"]
      [] f.pc = "col" ->
            LET py == f.y + f.row
                px == f.x + f.col
                index == py * f.buf_width + px
            IN  IF f.col >= ASCII_FONT_WIDTH
                THEN [f EXCEPT !.row = f.row + 1, !.pc = "row"]
                ELSE IF ColBreak(f)
                THEN [f EXCEPT !.row = f.row + 1, !.pc = "row",
                               !.iters = f.iters + 1]
                ELSE IF BitSet(font[f.bitmap][f.row + 1], f.col)
                THEN [f EXCEPT !.buffer = Store(f.buffer, index, f.color),
                               !.writes = Append(f.writes,
                                   [px |-> px, py |-> py, index |-> index]),
                               !.col = f.col + 1, !.iters = f.iters + 1]
                ELSE [f EXCEPT !.col = f.col + 1, !.iters = f.iters + 1]

ascii_draw_char_to_mono_buffer(f) == DrawCharToBuffer(f)

ascii_draw_char_to_rgb565_buffer(f) == DrawCharToBuffer(f)

BufferOps == {"mono", "rgb565"}

\* The caller's buffer of buf_width * buf_height cells, cell i holding
\* pattern[i]; no cell when a dimension is not positive.
NewBuffer(buf_width, buf_height, pattern) ==
    IF buf_width <= 0 \/ buf_height <= 0
    THEN [i \in {} |-> 0]
    ELSE [i \in 0..(buf_width * buf_height - 1) |-> (i * pattern) % 3]

BufferFrame(op, c, buf_width, buf_height, x, y, color, pattern) ==
    [op |-> op, pc |-> "entry", c |-> c,
     buf_width |-> buf_width, buf_height |-> buf_height,
     x |-> x, y |-> y, color |-> color,
     bitmap |-> 0, row |-> 0, col |-> 0,
     buffer |-> NewBuffer(buf_width, buf_height, pattern),
     writes |-> <<>>, iters |-> 0, calls |-> 1,
     once |-> NewBuffer(buf_width, buf_height, pattern)]

\* The caller issues the same draw again, on the buffer as the first left it.
RedrawFrame(f) ==
    [f EXCEPT !.pc = "entry", !.calls = f.calls + 1, !.iters = 0,
              !.once = IF f.calls = 1 THEN f.buffer ELSE f.once]

---------------------------------------------------------------------------
(* Inputs of the direct-buffer draws.                                      *)

\* '0', 'A', 'B', and 200: outside the table, and negative as a signed char
Codes == {48, 65, 66, 200}

Widths == {0, 5, MaxW}

Heights == {-1, MaxH}

\* left of the buffer, inside with the glyph fitting, inside with the
\* glyph overflowing, and just right of the buffer
Xs(buf_width) == {-1, 0, 2, buf_width - 1, buf_width}

Ys(buf_height) == {-1, 1, buf_height - 1, buf_height}

Colors(op) == IF op = "mono" THEN {0, 1} ELSE {ASCII_COLOR_BLACK, ASCII_COLOR_WHITE}

Patterns == {1}

---------------------------------------------------------------------------
(* ascii_draw_char.  An activation a of it holds its parameters and        *)
(* locals; sink is the sequence of calls pixel_fn has received.  The step  *)
(* yields the activation and the sink after it.                            *)
(* pc = "call": the lookup; "row", "col": the loop heads (and the column   *)
(* loop's body); "ret": returned.  For the properties: iters counts the    *)
(* column-loop bodies entered.                                             *)

\* The call pixel_fn(x, y, color, user_data), as the sink receives it.
pixel_fn(x, y, color) == [x |-> x, y |-> y, color |-> color]

CharActivation(c, x, y, color) ==
    [pc |-> "call", c |-> c, x |-> x, y |-> y, color |-> color,
     bitmap |-> 0, row |-> 0, col |-> 0, iters |-> 0]

ascii_draw_char(a, sink) ==
    CASE a.pc = "call" ->
            <<[a EXCEPT !.bitmap = ascii_get_char_bitmap(a.c),
                        !.row = 0, !.pc = "row"], sink>>
      [] a.pc = "row" ->
            IF a.row < ASCII_FONT_HEIGHT
            THEN <<[a EXCEPT !.col = 0, !.pc = "col"], sink>>
            ELSE <<[a EXCEPT !.pc = "ret"], sink>>
      [] a.pc = "col" ->
            IF a.col >= ASCII_FONT_WIDTH
            THEN <<[a EXCEPT !.row = a.row + 1, !.pc = "row"], sink>>
            ELSE IF BitSet(font[a.bitmap][a.row + 1], a.col)
            THEN <<[a EXCEPT !.col = a.col + 1, !.iters = a.iters + 1],
                   Append(sink, pixel_fn(a.x + a.col, a.y + a.row, a.color))>>
            ELSE <<[a EXCEPT !.col = a.col + 1, !.iters = a.iters + 1], sink>>

\* A caller's single call of ascii_draw_char.
CharFrame(c, x, y, color) ==
    [op |-> "draw_char", pc |-> "char",
     char |-> CharActivation(c, x, y, color), sink |-> <<>>]

DrawCharStep(f) ==
    LET r == ascii_draw_char(f.char, f.sink)
    IN  [f EXCEPT !.char = r[1], !.sink = r[2],
                  !.pc = IF r[1].pc = "ret" THEN "done" ELSE "char"]

---------------------------------------------------------------------------
(* ascii_draw_text.  pc = "entry": the initialisers; "scan": the loop test *)
(* and the branch on *ptr; "char": inside the call of ascii_draw_char, and *)
(* after its return the advance of x and ptr.  ptr is the position in text *)
(* (from 1).  For the properties: drawn logs the calls of ascii_draw_char  *)
(* (c, x, y), steps counts the executions of ptr++.                        *)

TextFrame(text, x, y, color) ==
    [op |-> "draw_text", pc |-> "entry", text |-> text,
     x |-> x, y |-> y, color |-> color,
     start_x |-> 0, current_y |-> 0, ptr |-> 1,
     char |-> CharActivation(0, 0, 0, color), sink |-> <<>>,
     drawn |-> <<>>, steps |-> 0, result |-> 0]

TextResult_NoOrigin(f) == f.x

\* return x - start_x;
TextResult(f) == f.x - f.start_x

AfterBreak_NoReset(f) ==
    [f EXCEPT !.current_y = f.current_y + ASCII_FONT_HEIGHT,
              !.ptr = f.ptr + 1, !.steps = f.steps + 1]

\* current_y += ASCII_FONT_HEIGHT; x = start_x; and then ptr++
AfterBreak(f) ==
    [f EXCEPT !.current_y = f.current_y + ASCII_FONT_HEIGHT,
              !.x = f.start_x,
              !.ptr = f.ptr + 1, !.steps = f.steps + 1]

ascii_draw_text(f) ==
    CASE f.pc = "entry" ->
            [f EXCEPT !.start_x = f.x, !.current_y = f.y, !.ptr = 1,
                      !.pc = "scan"]
      [] f.pc = "scan" ->
            LET ch == CharAt(f.text, f.ptr)
            IN  IF ch = 0
                THEN [f EXCEPT !.result = TextResult(f), !.pc = "done"]
                ELSE IF ch = NEWLINE
                THEN AfterBreak(f)
                ELSE [f EXCEPT !.char = CharActivation(ch, f.x, f.current_y,
                                                       f.color),
                               !.drawn = Append(f.drawn,
                                   [c |-> ch, x |-> f.x, y |-> f.current_y]),
                               !.pc = "char"]
      [] f.pc = "char" ->
            IF f.char.pc = "ret"
            THEN [f EXCEPT !.x = f.x + ASCII_FONT_WIDTH,
                           !.ptr = f.ptr + 1, !.steps = f.steps + 1,
                           !.pc = "scan"]
            ELSE LET r == ascii_draw_char(f.char, f.sink)
                 IN  [f EXCEPT !.char = r[1], !.sink = r[2]]

---------------------------------------------------------------------------
(* ascii_text_width and ascii_text_height.  pc = "entry": the              *)
(* initialisers; "scan": the loop test and one iteration, or the return.   *)

WidthFrame(text) ==
    [op |-> "text_width", pc |-> "entry", text |-> text, ptr |-> 1,
     width |-> 0, line_width |-> 0, steps |-> 0, result |-> 0]

WidthResult_LastLine(f) == f.line_width

\* return (line_width > width) ? line_width : width;
WidthResult(f) == IF f.line_width > f.width THEN f.line_width ELSE f.width

ascii_text_width(f) ==
    CASE f.pc = "entry" ->
            [f EXCEPT !.width = 0, !.line_width = 0, !.ptr = 1, !.pc = "scan"]
      [] f.pc = "scan" ->
            LET ch == CharAt(f.text, f.ptr)
            IN  IF ch = 0
                THEN [f EXCEPT !.result = WidthResult(f), !.pc = "done"]
                ELSE IF ch = NEWLINE
                THEN [f EXCEPT !.width = IF f.line_width > f.width
                                         THEN f.line_width ELSE f.width,
                               !.line_width = 0,
                               !.ptr = f.ptr + 1, !.steps = f.steps + 1]
                ELSE [f EXCEPT !.line_width = f.line_width + ASCII_FONT_WIDTH,
                               !.ptr = f.ptr + 1, !.steps = f.steps + 1]

HeightFrame(text) ==
    [op |-> "text_height", pc |-> "entry", text |-> text, ptr |-> 1,
     height |-> 0, steps |-> 0, result |-> 0]

HeightAfterBreak_SkipTrailing(f) ==
    IF CharAt(f.text, f.ptr + 1) = 0
    THEN f.height
    ELSE f.height + ASCII_FONT_HEIGHT

\* height += ASCII_FONT_HEIGHT;
HeightAfterBreak(f) == f.height + ASCII_FONT_HEIGHT

ascii_text_height(f) ==
    CASE f.pc = "entry" ->
            [f EXCEPT !.height = ASCII_FONT_HEIGHT, !.ptr = 1, !.pc = "scan"]
      [] f.pc = "scan" ->
            LET ch == CharAt(f.text, f.ptr)
            IN  IF ch = 0
                THEN [f EXCEPT !.result = f.height, !.pc = "done"]
                ELSE IF ch = NEWLINE
                THEN [f EXCEPT !.height = HeightAfterBreak(f),
                               !.ptr = f.ptr + 1, !.steps = f.steps + 1]
                ELSE [f EXCEPT !.ptr = f.ptr + 1, !.steps = f.steps + 1]

---------------------------------------------------------------------------
(* Inputs of the callback draws and of the metrics.                        *)

\* '\n', '0', and 200: outside the table, and negative as a signed char
Alphabet == {NEWLINE, 48, 200}

Texts == UNION {[1..n -> Alphabet] : n \in 0..MaxLen}

Origins == {<<0, 0>>, <<-3, 5>>}

\* color is an opaque pointer, handed through to pixel_fn
Inks == {"ink"}

---------------------------------------------------------------------------
(* One step of a frame, whatever its call, and the frame a call ends in    *)
(* when it runs from f to its return with nothing else running.            *)

StepFrame(f) ==
    CASE f.op = "lookup" -> LookupStep(f)
      [] f.op = "mono" -> ascii_draw_char_to_mono_buffer(f)
      [] f.op = "rgb565" -> ascii_draw_char_to_rgb565_buffer(f)
      [] f.op = "draw_char" -> DrawCharStep(f)
      [] f.op = "draw_text" -> ascii_draw_text(f)
      [] f.op = "text_width" -> ascii_text_width(f)
      [] f.op = "text_height" -> ascii_text_height(f)

RECURSIVE RunAlone(_)
RunAlone(f) == IF f.pc = "done" THEN f ELSE RunAlone(StepFrame(f))

---------------------------------------------------------------------------
(* Actions: thread t takes one step of its call.  Locals(t) is the storage *)
(* of the call's parameters and locals: automatic, the call's own.         *)

\* static const uint8_t* bitmap;
LocalsStatic(t) ==
    CASE th[t].op \in BufferOps /\ th[1].op \in BufferOps ->
            [th[t] EXCEPT !.bitmap = th[1].bitmap]
      [] th[t].op = "draw_char" /\ th[1].op = "draw_char" ->
            [th[t] EXCEPT !.char.bitmap = th[1].char.bitmap]
      [] OTHER -> th[t]

Locals(t) == th[t]

\* the threads there may be; those of a behaviour are DOMAIN th
Threads == {1, 2}

Running(t) == t \in DOMAIN th /\ th[t].pc # "done"

Lookup(t) ==
    /\ Running(t) /\ th[t].op = "lookup"
    /\ th' = [th EXCEPT ![t] = LookupStep(Locals(t))]
    /\ UNCHANGED <<font, char_signed, th0>>

MonoDraw(t) ==
    /\ Running(t) /\ th[t].op = "mono"
    /\ th' = [th EXCEPT ![t] = ascii_draw_char_to_mono_buffer(Locals(t))]
    /\ UNCHANGED <<font, char_signed, th0>>

Rgb565Draw(t) ==
    /\ Running(t) /\ th[t].op = "rgb565"
    /\ th' = [th EXCEPT ![t] = ascii_draw_char_to_rgb565_buffer(Locals(t))]
    /\ UNCHANGED <<font, char_signed, th0>>

\* The caller issues its direct-buffer draw again, with the same arguments.
Redraw(t) ==
    /\ t \in DOMAIN th
    /\ th[t].op \in BufferOps /\ th[t].pc = "done"
    /\ th[t].calls < MaxCalls
    /\ th' = [th EXCEPT ![t] = RedrawFrame(th[t])]
    /\ UNCHANGED <<font, char_signed, th0>>

DrawChar(t) ==
    /\ Running(t) /\ th[t].op = "draw_char"
    /\ th' = [th EXCEPT ![t] = DrawCharStep(Locals(t))]
    /\ UNCHANGED <<font, char_signed, th0>>

DrawText(t) ==
    /\ Running(t) /\ th[t].op = "draw_text"
    /\ th' = [th EXCEPT ![t] = ascii_draw_text(Locals(t))]
    /\ UNCHANGED <<font, char_signed, th0>>

TextWidth(t) ==
    /\ Running(t) /\ th[t].op = "text_width"
    /\ th' = [th EXCEPT ![t] = ascii_text_width(Locals(t))]
    /\ UNCHANGED <<font, char_signed, th0>>

TextHeight(t) ==
    /\ Running(t) /\ th[t].op = "text_height"
    /\ th' = [th EXCEPT ![t] = ascii_text_height(Locals(t))]
    /\ UNCHANGED <<font, char_signed, th0>>

---------------------------------------------------------------------------
(* Spec: one thread issues a direct-buffer draw, and issues it again.      *)

BufferFrames ==
    UNION {UNION {{BufferFrame(op, ToChar(code), buf_width, buf_height,
                               x, y, color, pattern) :
                      x \in Xs(buf_width), y \in Ys(buf_height),
                      color \in Colors(op)} :
                  op \in BufferOps, code \in Codes, pattern \in Patterns} :
           buf_width \in Widths, buf_height \in Heights}

Init ==
    /\ font \in Fonts
    /\ char_signed \in BOOLEAN
    /\ th \in [{1} -> BufferFrames]
    /\ th0 = th

Next ==
    \/ \E t \in Threads : MonoDraw(t)
    \/ \E t \in Threads : Rgb565Draw(t)
    \/ \E t \in Threads : Redraw(t)

Spec == Init /\ [][Next]_vars

---------------------------------------------------------------------------
(* SpecLookup: one thread looks up one 8-bit code.                         *)

ByteCodes == 0..255

InitLookup ==
    /\ font \in Fonts
    /\ char_signed \in BOOLEAN
    /\ th \in [{1} -> {LookupFrame(code) : code \in ByteCodes}]
    /\ th0 = th

NextLookup == \E t \in Threads : Lookup(t)

SpecLookup == InitLookup /\ [][NextLookup]_vars

---------------------------------------------------------------------------
(* SpecText: one thread draws a character or a text through pixel_fn, or   *)
(* measures a text.                                                        *)

CharFrames ==
    {CharFrame(ToChar(code), o[1], o[2], color) :
        code \in Codes, o \in Origins, color \in Inks}

TextFrames ==
    {TextFrame(text, o[1], o[2], color) :
        text \in Texts, o \in Origins, color \in Inks}
    \cup {WidthFrame(text) : text \in Texts}
    \cup {HeightFrame(text) : text \in Texts}

\* The characters of Alphabet have the same glyphs in both tables: the
\* texts are drawn with the table as shipped.
InitText ==
    /\ char_signed \in BOOLEAN
    /\ \/ font \in Fonts /\ th \in [{1} -> CharFrames]
       \/ font = ascii_font /\ th \in [{1} -> TextFrames]
    /\ th0 = th

NextText ==
    \/ \E t \in Threads : DrawChar(t)
    \/ \E t \in Threads : DrawText(t)
    \/ \E t \in Threads : TextWidth(t)
    \/ \E t \in Threads : TextHeight(t)

SpecText == InitText /\ [][NextText]_vars

---------------------------------------------------------------------------
(* SpecConc: two threads run one call each, concurrently, each with a      *)
(* buffer or a sink of its own: two direct-buffer draws, two callback      *)
(* draws, a text draw beside a width measurement, or a lookup beside a     *)
(* height measurement.  Both characters drawn have set bits in DenseFont.  *)

ConcCodes == {48, 66}

ConcBufferFrames(ops) ==
    {BufferFrame(op, ToChar(code), 5, MaxH, x, 1,
                 IF op = "mono" THEN 1 ELSE ASCII_COLOR_WHITE, 1) :
        op \in ops, code \in ConcCodes, x \in {2, 4}}

ConcCharFrames ==
    {CharFrame(ToChar(code), -3, 5, "ink") : code \in ConcCodes}

ConcTexts == {<<48, NEWLINE, 200>>, <<NEWLINE, 48>>}

Pairs(F1, F2) ==
    {[t \in {1, 2} |-> IF t = 1 THEN p[1] ELSE p[2]] : p \in F1 \X F2}

InitConc ==
    /\ font = DenseFont
    /\ char_signed \in BOOLEAN
    /\ th \in Pairs(ConcBufferFrames({"mono"}), ConcBufferFrames(BufferOps))
          \cup Pairs(ConcCharFrames, ConcCharFrames)
          \cup Pairs({TextFrame(text, 0, 0, "ink") : text \in ConcTexts},
                     {WidthFrame(text) : text \in ConcTexts})
          \cup Pairs({LookupFrame(code) : code \in {31, 48, 200}},
                     {HeightFrame(text) : text \in ConcTexts})
    /\ th0 = th

NextConc ==
    \/ \E t \in Threads : MonoDraw(t)
    \/ \E t \in Threads : Rgb565Draw(t)
    \/ \E t \in Threads : DrawChar(t)
    \/ \E t \in Threads : DrawText(t)
    \/ \E t \in Threads : TextWidth(t)
    \/ \E t \in Threads : TextHeight(t)
    \/ \E t \in Threads : Lookup(t)

SpecConc == InitConc /\ [][NextConc]_vars

---------------------------------------------------------------------------
(* SpecTerm: one thread runs one call, a direct-buffer draw, a callback    *)
(* draw of a character or a text, or a measurement, and the call is not    *)
(* suspended for ever: the code is synchronous, with no blocking and no    *)
(* suspension point, so a call that can take a step takes it.              *)

\* the texts drawn: of every length up to MaxLen, of line breaks and '0'
TermTexts == UNION {[1..n -> {NEWLINE, 48}] : n \in 0..MaxLen}

TermFrames ==
    CharFrames
    \cup {TextFrame(text, -3, 5, color) : text \in TermTexts, color \in Inks}
    \cup {WidthFrame(text) : text \in Texts}
    \cup {HeightFrame(text) : text \in Texts}

InitTerm ==
    \/ Init
    \/ /\ font = ascii_font
       /\ char_signed \in BOOLEAN
       /\ th \in [{1} -> TermFrames]
       /\ th0 = th

NextTerm ==
    \/ \E t \in Threads : MonoDraw(t)
    \/ \E t \in Threads : Rgb565Draw(t)
    \/ \E t \in Threads : DrawChar(t)
    \/ \E t \in Threads : DrawText(t)
    \/ \E t \in Threads : TextWidth(t)
    \/ \E t \in Threads : TextHeight(t)

SpecTerm == InitTerm /\ [][NextTerm]_vars /\ WF_vars(NextTerm)

---------------------------------------------------------------------------
(* Properties.                                                             *)

Done(t) == th[t].pc = "done"

BufferDraws == {t \in DOMAIN th : th[t].op \in BufferOps}

\* the cells a direct-buffer draw has stored to
Cells(f) == {f.writes[k].index : k \in 1..Len(f.writes)}

\* the glyph the table holds for the character c
GlyphOf(c) ==
    font[IF c \in ASCII_FIRST_CHAR..(ASCII_LAST_CHAR - 1)
         THEN c - ASCII_FIRST_CHAR ELSE 0]

Min(a, b) == IF a < b THEN a ELSE b

Largest(S) == CHOOSE m \in S : \A n \in S : n <= m

\* the positions of the line breaks of a text
Breaks(text) == {i \in 1..Len(text) : text[i] = NEWLINE}

\* the lengths of the lines of a text: the segments between line breaks
LineLengths(text) ==
    LET B == Breaks(text) \cup {0, Len(text) + 1}
    IN  {p[2] - p[1] - 1 :
            p \in {q \in B \X B :
                      q[1] < q[2] /\ ~\E b \in B : q[1] < b /\ b < q[2]}}

\* C1: every store a direct-buffer draw has made, in any call of it, with
\* any character, origin and buffer size, went to a cell (px, py) with
\* 0 <= px < buf_width and 0 <= py < buf_height, at index
\* py * buf_width + px, a cell of the buffer.
C1_WritesInsideBuffer ==
    \A t \in BufferDraws :
        \A k \in 1..Len(th[t].writes) :
            LET w == th[t].writes[k]
            IN  /\ 0 <= w.px /\ w.px < th[t].buf_width
                /\ 0 <= w.py /\ w.py < th[t].buf_height
                /\ w.index = w.py * th[t].buf_width + w.px
                /\ w.index \in DOMAIN th[t].buffer

\* A second call has returned after stores, of a glyph that overflows the
\* buffer on the right and at the bottom.
C1_Witness ==
    \E t \in BufferDraws :
        /\ Done(t) /\ th[t].calls = 2 /\ th[t].writes # <<>>
        /\ th[t].x + ASCII_FONT_WIDTH > th[t].buf_width
        /\ th[t].y + ASCII_FONT_HEIGHT > th[t].buf_height

\* the calls of pixel_fn a glyph asks for: one per set bit, rows top to
\* bottom, within a row columns left to right
ExpectedCalls(glyph, x, y, color) ==
    LET n == ASCII_FONT_WIDTH * ASCII_FONT_HEIGHT
        row(k) == (k - 1) \div ASCII_FONT_WIDTH
        col(k) == (k - 1) % ASCII_FONT_WIDTH
        IsSet(k) == (glyph[row(k) + 1] \div (2 ^ (7 - col(k)))) % 2 = 1
        set == SelectSeq([k \in 1..n |-> k], IsSet)
    IN  [i \in 1..Len(set) |->
            [x |-> x + col(set[i]), y |-> y + row(set[i]), color |-> color]]

\* C2: ascii_draw_char calls pixel_fn once for each set bit of the glyph of
\* c and never for a cleared bit, at (x + col, y + row) for bit (7 - col)
\* of row `row`, with the given color, rows top to bottom and columns left
\* to right: what the sink has received is always a prefix of that
\* sequence, and all of it once the draw has returned.
C2_SinkCallsRowMajor ==
    \A t \in DOMAIN th :
        th[t].op = "draw_char" =>
            LET a == th0[t].char
                e == ExpectedCalls(GlyphOf(a.c), a.x, a.y, a.color)
            IN  /\ Len(th[t].sink) <= Len(e)
                /\ th[t].sink = SubSeq(e, 1, Len(th[t].sink))
                /\ Done(t) => th[t].sink = e

\* A draw at a negative origin has returned, of a glyph with set and
\* cleared bits.
C2_Witness ==
    \E t \in DOMAIN th :
        /\ th[t].op = "draw_char" /\ Done(t)
        /\ th[t].char.x < 0
        /\ Len(th[t].sink) > 0
        /\ Len(th[t].sink) < ASCII_FONT_WIDTH * ASCII_FONT_HEIGHT

\* C3: for an 8-bit code outside [ASCII_FIRST_CHAR, ASCII_LAST_CHAR),
\* with char signed or unsigned, ascii_get_char_bitmap returns entry 0 of
\* the table, the entry of code 32; for every code the entry it returns is
\* one of the table's 0..ASCII_CHAR_COUNT-1.
C3_FallbackOutsideRange ==
    \A t \in DOMAIN th :
        (th[t].op = "lookup" /\ Done(t)) =>
            /\ th[t].result \in 0..(ASCII_CHAR_COUNT - 1)
            /\ th[t].result \in DOMAIN font
            /\ th[t].code \notin ASCII_FIRST_CHAR..(ASCII_LAST_CHAR - 1)
                  => th[t].result = 0
            /\ th[t].code \in ASCII_FIRST_CHAR..(ASCII_LAST_CHAR - 1)
                  => th[t].result = th[t].code - ASCII_FIRST_CHAR

\* A code above 127 has been looked up where char is signed.
C3_Witness ==
    \E t \in DOMAIN th :
        /\ th[t].op = "lookup" /\ Done(t)
        /\ char_signed /\ th[t].code >= 128 /\ th[t].c < 0
        /\ th[t].result = 0

\* C4: ascii_text_width returns ASCII_FONT_WIDTH times the length of the
\* longest line of the text, the last line included; 0 for the empty text.
C4_WidthIsLongestLine ==
    \A t \in DOMAIN th :
        (th[t].op = "text_width" /\ Done(t)) =>
            /\ th[t].result =
                 ASCII_FONT_WIDTH * Largest(LineLengths(th[t].text))
            /\ th[t].text = <<>> => th[t].result = 0

\* A text whose last line is its only longest line has been measured.
C4_Witness ==
    \E t \in DOMAIN th :
        /\ th[t].op = "text_width" /\ Done(t)
        /\ Breaks(th[t].text) # {}
        /\ th[t].result > th[t].width
        /\ th[t].width > 0

\* C5: ascii_text_height returns ASCII_FONT_HEIGHT * (1 + the number of
\* line breaks of the text), also for a text that ends with a line break
\* and for the empty text.
C5_HeightCountsBreaks ==
    \A t \in DOMAIN th :
        (th[t].op = "text_height" /\ Done(t)) =>
            th[t].result =
                ASCII_FONT_HEIGHT * (1 + Cardinality(Breaks(th[t].text)))

\* A text that ends with a line break has been measured.
C5_Witness ==
    \E t \in DOMAIN th :
        /\ th[t].op = "text_height" /\ Done(t)
        /\ Len(th[t].text) \in Breaks(th[t].text)
        /\ th[t].result > ASCII_FONT_HEIGHT

C7_DrawTextReturnsMaxWidth ==
    \A t \in DOMAIN th :
        (th[t].op = "draw_text" /\ Done(t)) =>
            th[t].result = RunAlone(WidthFrame(th[t].text)).result

FullGlyph(f) ==
    \A r \in 1..ASCII_FONT_HEIGHT : GlyphOf(f.c)[r] = 255

OriginInside(f) ==
    /\ 0 <= f.x /\ f.x < f.buf_width
    /\ 0 <= f.y /\ f.y < f.buf_height

C9_DrawTwiceIsDrawOnce ==
    \A t \in BufferDraws :
        (Done(t) /\ th[t].calls >= 2) => th[t].buffer = th[t].once

\* A draw that changed the buffer has been issued twice.
C9_Witness ==
    \E t \in BufferDraws :
        /\ Done(t) /\ th[t].calls = 2
        /\ th[t].buffer # th0[t].buffer
        /\ \E i \in Cells(th[t]) : th0[t].buffer[i] = 0

\* C10: two draws that run concurrently, interleaved between any two of
\* their pixel writes or pixel_fn calls, each on a buffer or a sink of its
\* own, end as each ends when it runs alone: the same buffer, the same
\* sequence of calls received by the sink, the same result; and no step of
\* a draw, a lookup or a measurement changes the glyph table.
C10_IndependentCalls ==
    /\ [](\A t \in DOMAIN th : Done(t) => th[t] = RunAlone(th0[t]))
    /\ [][font' = font]_vars

\* Thread 2 has finished a draw that wrote pixels while thread 1 is in
\* the middle of its own, having written pixels.
C10_Witness ==
    /\ DOMAIN th = {1, 2}
    /\ th[1].op = "mono" /\ th[2].op \in BufferOps
    /\ Done(2) /\ th[2].writes # <<>>
    /\ th[1].pc = "col" /\ th[1].row = 3 /\ th[1].writes # <<>>

TextOps == {"draw_text", "text_width", "text_height"}

\* the column-loop bodies a single-glyph draw has entered
InnerIterations(f) ==
    IF f.op \in BufferOps THEN f.iters
    ELSE IF f.op = "draw_char" THEN f.char.iters
    ELSE 0

\* C11: every call returns; ascii_draw_text, ascii_text_width and
\* ascii_text_height return after exactly Len(text) executions of ptr++
\* (never more on the way), and a single-glyph draw, through pixel_fn or
\* into a buffer, for any origin and buffer size, enters the body of its
\* column loop at most ASCII_FONT_HEIGHT * ASCII_FONT_WIDTH = 64 times.
C11_EveryCallTerminates ==
    /\ \A t \in Threads : Running(t) ~> ~Running(t)
    /\ [](\A t \in DOMAIN th :
            /\ th[t].op \in TextOps =>
                 /\ th[t].steps <= Len(th[t].text)
                 /\ Done(t) => th[t].steps = Len(th[t].text)
            /\ InnerIterations(th[t]) <=
                 ASCII_FONT_HEIGHT * ASCII_FONT_WIDTH)

\* A text of the greatest length, with a line break in it, has been drawn
\* in Len(text) scan steps.
C11_Witness ==
    \E t \in DOMAIN th :
        /\ th[t].op = "draw_text" /\ Done(t)
        /\ Len(th[t].text) = MaxLen /\ Breaks(th[t].text) # {}
        /\ th[t].steps = MaxLen
        /\ th[t].sink # <<>>

\* the cell of index i lies in the glyph cell drawn at (f.x, f.y)
InGlyphCell(f, i) ==
    /\ (i % f.buf_width) - f.x \in 0..(ASCII_FONT_WIDTH - 1)
    /\ (i \div f.buf_width) - f.y \in 0..(ASCII_FONT_HEIGHT - 1)

\* the cell of index i is (x + col, y + row) for a set bit (7 - col) of
\* row `row` of the glyph of f.c
UnderSetBit(f, i) ==
    /\ InGlyphCell(f, i)
    /\ LET col == (i % f.buf_width) - f.x
           row == (i \div f.buf_width) - f.y
       IN  (GlyphOf(f.c)[row + 1] \div (2 ^ (7 - col))) % 2 = 1

\* C12: for an origin inside the buffer, the buffer after a direct-buffer
\* draw is the buffer before it except that the cells (x + col, y + row)
\* of the buffer under a set bit hold color: what is past the right or
\* bottom edge is skipped, and every other cell keeps its value, also
\* while the draw runs (a glyph with no bit set leaves the buffer as it
\* was).
C12_DrawChangesSetBitCellsOnly ==
    \A t \in BufferDraws :
        OriginInside(th[t]) =>
            LET f == th[t]
                before == th0[t].buffer
            IN  /\ DOMAIN f.buffer = DOMAIN before
                /\ \A i \in DOMAIN before :
                      /\ ~UnderSetBit(f, i) => f.buffer[i] = before[i]
                      /\ f.buffer[i] \in {before[i], f.color}
                      /\ (Done(t) /\ UnderSetBit(f, i))
                            => f.buffer[i] = f.color

\* A glyph that overflows the buffer on the right and at the bottom has
\* been drawn: a cell under a set bit changed, a cell under a cleared bit
\* of the glyph cell holds another value than color.
C12_Witness ==
    \E t \in BufferDraws :
        LET f == th[t]
        IN  /\ Done(t) /\ OriginInside(f)
            /\ f.x + ASCII_FONT_WIDTH > f.buf_width
            /\ f.y + ASCII_FONT_HEIGHT > f.buf_height
            /\ \E i \in DOMAIN f.buffer :
                  UnderSetBit(f, i) /\ th0[t].buffer[i] # f.color
            /\ \E i \in DOMAIN f.buffer :
                  InGlyphCell(f, i) /\ ~UnderSetBit(f, i)
                    /\ f.buffer[i] # f.color

\* the glyph cell drawn at (f.x, f.y) has a cell in the buffer
GlyphCellOverlaps(f) ==
    /\ f.x + ASCII_FONT_WIDTH > 0 /\ f.x < f.buf_width
    /\ f.y + ASCII_FONT_HEIGHT > 0 /\ f.y < f.buf_height

\* C13: with x < 0 or y < 0 or x >= buf_width or y >= buf_height a
\* direct-buffer draw stores nothing and leaves the whole buffer as it
\* was, at every step and also when part of the glyph cell overlaps the
\* buffer: a glyph partly off the top or left edge is dropped, while one
\* that overflows the bottom or right edge from an origin inside is drawn
\* (its top-left bit, when set, is stored).
C13_OriginOutsideIsNoOp ==
    \A t \in BufferDraws :
        LET f == th[t]
        IN  /\ (f.x < 0 \/ f.y < 0 \/ f.x >= f.buf_width
                  \/ f.y >= f.buf_height)
                 => /\ f.writes = <<>>
                    /\ f.buffer = th0[t].buffer
                    /\ f.pc \in {"entry", "done"}
            /\ (Done(t) /\ OriginInside(f) /\ GlyphOf(f.c)[1] >= 128)
                 => /\ f.writes # <<>>
                    /\ f.buffer[f.y * f.buf_width + f.x] = f.color

\* A glyph with set bits has been drawn at x = -1 with its cell
\* overlapping the buffer, and the call has returned.
C13_Witness ==
    \E t \in BufferDraws :
        LET f == th[t]
        IN  /\ Done(t) /\ f.x = -1 /\ f.y > 0
            /\ GlyphCellOverlaps(f)
            /\ FullGlyph(f)
            /\ \E i \in DOMAIN f.buffer : f.buffer[i] # f.color

\* the line breaks of a text before position i
BreaksBefore(text, i) == {b \in Breaks(text) : b < i}

\* how many characters of its line precede position i
ColumnOf(text, i) == i - 1 - Largest(BreaksBefore(text, i) \cup {0})

\* the calls of ascii_draw_char a text asks for: one for each character
\* that is no line break, in text order, the j-th character of the k-th
\* line at (x0 + j * ASCII_FONT_WIDTH, y0 + k * ASCII_FONT_HEIGHT)
ExpectedDrawn(text, x0, y0) ==
    LET IsChar(i) == text[i] # NEWLINE
        at == SelectSeq([i \in 1..Len(text) |-> i], IsChar)
    IN  [n \in 1..Len(at) |->
            [c |-> ToChar(text[at[n]]),
             x |-> x0 + ColumnOf(text, at[n]) * ASCII_FONT_WIDTH,
             y |-> y0 + Cardinality(BreaksBefore(text, at[n]))
                          * ASCII_FONT_HEIGHT]]

\* the calls of pixel_fn the draws d[1], d[2], ... ask for, one draw
\* after the other
RECURSIVE CallsOf(_, _)
CallsOf(d, color) ==
    IF d = <<>> THEN <<>>
    ELSE ExpectedCalls(GlyphOf(d[1].c), d[1].x, d[1].y, color)
            \o CallsOf(Tail(d), color)

\* C14: ascii_draw_text started at (x0, y0) calls ascii_draw_char for the
\* characters in text order and not for a line break, the j-th character
\* of the k-th line at (x0 + j * ASCII_FONT_WIDTH,
\* y0 + k * ASCII_FONT_HEIGHT); between characters the cursor is at the
\* place the text read so far gives it, each line break having added
\* ASCII_FONT_HEIGHT to its y and reset its x to x0; the sink receives
\* the pixels of these draws and nothing else.
C14_DrawTextPlacesCharacters ==
    \A t \in DOMAIN th :
        th[t].op = "draw_text" =>
            LET f == th[t]
                x0 == th0[t].x
                y0 == th0[t].y
                e == ExpectedDrawn(f.text, x0, y0)
            IN  /\ Len(f.drawn) <= Len(e)
                /\ f.drawn = SubSeq(e, 1, Len(f.drawn))
                /\ f.pc = "char" =>
                      /\ f.drawn # <<>>
                      /\ f.drawn[Len(f.drawn)] =
                           [c |-> f.char.c, x |-> f.char.x, y |-> f.char.y]
                /\ f.pc = "scan" =>
                      /\ f.x = x0 + ColumnOf(f.text, f.ptr) * ASCII_FONT_WIDTH
                      /\ f.current_y =
                           y0 + Cardinality(BreaksBefore(f.text, f.ptr))
                                   * ASCII_FONT_HEIGHT
                /\ Done(t) =>
                      /\ f.drawn = e
                      /\ f.sink = CallsOf(e, f.color)

\* A text of two lines, with a second character on its second line, has
\* been drawn from an origin other than (0, 0).
C14_Witness ==
    \E t \in DOMAIN th :
        LET f == th[t]
        IN  /\ f.op = "draw_text" /\ Done(t)
            /\ th0[t].x # 0 /\ th0[t].y # 0
            /\ Len(f.drawn) >= 3
            /\ f.drawn[1].y = th0[t].y
            /\ f.drawn[Len(f.drawn)].y = th0[t].y + ASCII_FONT_HEIGHT
            /\ f.drawn[Len(f.drawn)].x = th0[t].x + ASCII_FONT_WIDTH
            /\ f.sink # <<>>

====
